---- MODULE Spec2Model ----
(***************************************************************************)
(* Model of the company-screening pipeline of src/logic.py (and the inline *)
(* copy of the gradient normalisation in src/main.py).                     *)
(*                                                                         *)
(* Every function of logic.py is a call on a table: the state is the call  *)
(* being made (args), what the upstream data API answers (yf), the value   *)
(* the call returned or the exception it raised (ret), and the IEEE-754    *)
(* exception flags the arithmetic raised on the way (fpe).                 *)
(*                                                                         *)
(* cache is the memo that st.cache_data keeps for the reference-data       *)
(* lookups get_industries_for_sector and get_companies_for_industry, keyed  *)
(* by the function and its arguments.  calls is a history variable: the    *)
(* lookups and enrichments made so far, in order, each with whether it     *)
(* went to the upstream API and what it gave back.  The memo of            *)
(* fetch_additional_company_data is not part of the state: every           *)
(* specification reaches it at most once, from an empty memo.              *)
(*                                                                         *)
(* Numbers are exact rationals <<n, d>> (d > 0, lowest terms); the code's  *)
(* binary floating point is not modelled, so a value that sits within one  *)
(* ulp of a rounding boundary may round differently in the program.        *)
(* A missing number (None / NaN in a float column) is the empty tuple.     *)
(***************************************************************************)
EXTENDS Integers, Sequences, FiniteSets, TLC

VARIABLES pc, args, yf, ret, fpe, cache, calls

vars == <<pc, args, yf, ret, fpe, cache, calls>>

(***************************************************************************)
(* Bounds of the model.                                                    *)
(***************************************************************************)
MaxEnrichRows == 2

(***************************************************************************)
(* Exact arithmetic.                                                       *)
(***************************************************************************)
None == <<>>

NoneStr == "<None>"

Abs(n) == IF n < 0 THEN -n ELSE n

RECURSIVE GCD(_, _)
GCD(a, b) == IF b = 0 THEN a ELSE GCD(b, a % b)

\* the rational n/d in lowest terms, d # 0
Q(n, d) ==
    LET s == IF d < 0 THEN -1 ELSE 1
        g == GCD(Abs(n), Abs(d))
    IN  <<(s * n) \div g, (s * d) \div g>>

Whole(n) == <<n, 1>>

QLe(a, b) == a[1] * b[2] <= b[1] * a[2]

QLt(a, b) == a[1] * b[2] < b[1] * a[2]

QSub(a, b) == Q(a[1] * b[2] - b[1] * a[2], a[2] * b[2])

QAdd(a, b) == Q(a[1] * b[2] + b[1] * a[2], a[2] * b[2])

\* a * b, cancelling crosswise first
QMul(a, b) ==
    LET g1 == GCD(Abs(a[1]), b[2])
        g2 == GCD(Abs(b[1]), a[2])
    IN  Q((a[1] \div g1) * (b[1] \div g2), (a[2] \div g2) * (b[2] \div g1))

\* a / b for b # 0
QDiv(a, b) == QMul(a, Q(b[2], b[1]))

\* n/d rounded to the nearest integer, halves to the even neighbour
RoundHalfEven(n, d) ==
    LET f == n \div d
        r == n % d
    IN  IF 2 * r < d THEN f
        ELSE IF 2 * r > d THEN f + 1
        ELSE IF f % 2 = 0 THEN f ELSE f + 1

\* numpy's round(x, 2); a missing value stays missing
Round2(x) ==
    IF x = None THEN None
    ELSE LET h == QMul(x, Whole(100)) IN Q(RoundHalfEven(h[1], h[2]), 100)

\* Python truthiness of an optional number: None and 0 are falsy
Truthy(x) == x # None /\ x[1] # 0

\* dict.get(key, default)
Get(d, key, default) == IF key \in DOMAIN d THEN d[key] ELSE default

(***************************************************************************)
(* Tables.  A DataFrame is a sequence of rows; a row is a function from    *)
(* column names to cell values, the same columns in every row, and holds   *)
(* its index label under the key "index".                                  *)
(***************************************************************************)
\* df.get(column, pd.Series([default] * len(df)))
Column(df, column, default) ==
    [i \in 1..Len(df) |-> Get(df[i], column, default)]

AllSeqs(S, n) == UNION {[1..k -> S] : k \in 0..n}

(***************************************************************************)
(* fetch_additional_company_data                                           *)
(***************************************************************************)
exchange_rates ==
    ("USD" :> Q(1, 1)) @@ ("EUR" :> Q(11, 10)) @@ ("GBP" :> Q(13, 10)) @@
    ("JPY" :> Q(7, 1000)) @@ ("CAD" :> Q(3, 4))

Million == 1000000

\* rate = exchange_rates.get(info.get("currency", "USD"), 1.0)
rate_of(info) == Get(exchange_rates, Get(info, "currency", "USD"), Q(1, 1))

\* x*100 if x is not None else None
to_percent(x) == IF x # None THEN QMul(x, Whole(100)) ELSE None

\* info.get("ebitMargins") or info.get("operatingMargins"), then * 100
ebit_margin_of(info) ==
    LET primary == Get(info, "ebitMargins", None)
        chosen  == IF Truthy(primary) THEN primary
                   ELSE Get(info, "operatingMargins", None)
    IN  to_percent(chosen)

\* to_musd with a missing source value defaulted to 0
to_musd_zero_default(value, rate) ==
    IF value # None THEN QDiv(QMul(value, rate), Whole(Million)) ELSE Whole(0)

\* (value*rate/1_000_000) if value is not None else None
to_musd(value, rate) ==
    IF value # None THEN QDiv(QMul(value, rate), Whole(Million)) ELSE None

\* (market_cap/free_cashflow) if market_cap and free_cashflow else None
p_fcf_ratio(market_cap, free_cashflow) ==
    IF Truthy(market_cap) /\ Truthy(free_cashflow)
    THEN QDiv(market_cap, free_cashflow) ELSE None

\* the unrounded free cash flow that enters P/FCF
free_cashflow_of(info) == to_musd(Get(info, "freeCashflow", None), rate_of(info))

Columns ==
    <<"Name", "Ticker", "Revenue (M USD)", "Market Cap (M USD)", "Gross Margin (%)",
      "EBIT Margin (%)", "EBITDA Margin (%)", "P/E", "EV/EBITDA", "EV/Sales",
      "P/FCF", "Market Weight (%)", "Industry", "Rating">>

\* one pass of the loop body: the dictionary appended to rows
enrich_row(symbol, company_name, industry, market_weight, rating, info) ==
    LET rate == rate_of(info)
        market_cap == to_musd(Get(info, "marketCap", None), rate)
    IN  ("Name" :> (IF company_name \in {NoneStr, ""}
                    THEN Get(info, "shortName", NoneStr) ELSE company_name)) @@
        ("Ticker" :> symbol) @@
        ("Revenue (M USD)" :> to_musd(Get(info, "totalRevenue", None), rate)) @@
        ("Market Cap (M USD)" :> market_cap) @@
        ("Gross Margin (%)" :> to_percent(Get(info, "grossMargins", None))) @@
        ("EBIT Margin (%)" :> ebit_margin_of(info)) @@
        ("EBITDA Margin (%)" :> to_percent(Get(info, "ebitdaMargins", None))) @@
        ("P/E" :> Get(info, "trailingPE", None)) @@
        ("EV/EBITDA" :> Get(info, "enterpriseToEbitda", None)) @@
        ("EV/Sales" :> Get(info, "enterpriseToRevenue", None)) @@
        ("P/FCF" :> p_fcf_ratio(market_cap, free_cashflow_of(info))) @@
        ("Market Weight (%)" :> to_percent(market_weight)) @@
        ("Industry" :> industry) @@
        ("Rating" :> rating)

\* the row labels of a frame are kept in the rows, under this key
IndexKey == "index"

TextColumns == {"Name", "Ticker", "Industry", "Rating", IndexKey}

\* pd.DataFrame(rows): the rows under a fresh RangeIndex 0..n-1
DataFrame(rows) == [i \in 1..Len(rows) |-> rows[i] @@ (IndexKey :> (i - 1))]

\* DataFrame.round(2): every numeric column rounded, text columns untouched
round_frame(df) ==
    [i \in 1..Len(df) |->
        [c \in DOMAIN df[i] |->
            IF c \in TextColumns THEN df[i][c] ELSE Round2(df[i][c])]]

\* What the upstream API answers for one symbol: the symbol is not among
\* yf.Tickers(...).tickers, or its .info is a dictionary, or .info raises.
Missing == [kind |-> "missing", info |-> <<>>]

Raises == [kind |-> "raises", info |-> <<>>]

Answer(info) == [kind |-> "info", info |-> info]

\* info_dict.get(symbol, {})
info_for(yf_info, symbol) ==
    IF yf_info[symbol].kind = "info" THEN yf_info[symbol].info ELSE <<>>

Returned(value) == [raised |-> FALSE, value |-> value]

Raised == [raised |-> TRUE, value |-> <<>>]

\* the whole call: the comprehension that reads every .info (no handler
\* around it), the loop over the rows, the frame and its rounding
fetch_additional_company_data(df_with_symbols, yf_info) ==
    LET n == Len(df_with_symbols)
        symbol == Column(df_with_symbols, "symbol", NoneStr)
        name == Column(df_with_symbols, "name", NoneStr)
        industry == Column(df_with_symbols, "Industry", "")
        market_weight == Column(df_with_symbols, "market weight", None)
        rating == Column(df_with_symbols, "rating", "")
    IN  IF \E i \in 1..n : yf_info[symbol[i]].kind = "raises"
        THEN Raised
        ELSE Returned(round_frame(DataFrame(
                [i \in 1..n |->
                    enrich_row(symbol[i], name[i], industry[i], market_weight[i],
                               rating[i], info_for(yf_info, symbol[i]))])))

(***************************************************************************)
(* The inputs of the enrichment: tables of symbols and upstream answers.   *)
(***************************************************************************)
Symbols == {"AAA", "BBB"}

Opt(key, value) == IF value = None THEN <<>> ELSE key :> value

OptStr(key, value) == IF value = NoneStr THEN <<>> ELSE key :> value

Currencies == {"USD", "EUR", "GBP", "JPY", "CAD", "CHF", NoneStr}

Amounts == {None, Whole(0), Whole(1234567)}

CashFlows == {None, Whole(0), Whole(300000), Whole(-300000)}

PrimaryMargins == {None, Whole(0), Q(12346, 100000)}

OperatingMargins == {None, Whole(0), Q(1, 4)}

MoneyInfo(currency, revenue, cap, fcf) ==
    OptStr("currency", currency) @@ Opt("totalRevenue", revenue) @@
    Opt("marketCap", cap) @@ Opt("freeCashflow", fcf)

MarginInfo(ebit, operating, rest) ==
    Opt("ebitMargins", ebit) @@ Opt("operatingMargins", operating) @@
    (IF rest
     THEN ("grossMargins" :> Q(40125, 100000)) @@ ("ebitdaMargins" :> Q(3, 10)) @@
          ("trailingPE" :> Q(21456, 1000)) @@ ("enterpriseToEbitda" :> Q(12, 1)) @@
          ("enterpriseToRevenue" :> Q(7, 2)) @@ ("shortName" :> "Acme Corp")
     ELSE <<>>)

\* every currency with all monetary fields present; every presence pattern of
\* market cap and free cash flow, and of revenue, in the default currency;
\* every pattern of the margins
Infos ==
    {MoneyInfo(c, Whole(2500000), Whole(1234567), Whole(300000)) : c \in Currencies}
    \cup {MoneyInfo(NoneStr, None, m, f) : m \in Amounts, f \in CashFlows}
    \cup {MoneyInfo(NoneStr, r, None, None) : r \in Amounts}
    \cup {MarginInfo(e, o, rest) :
            e \in PrimaryMargins, o \in OperatingMargins, rest \in BOOLEAN}

Answers == {Answer(info) : info \in Infos} \cup {Missing, Raises}

\* a table with the symbol column only, or with every optional column
BareRows == {"symbol" :> s : s \in Symbols}

FullRows ==
    {("symbol" :> s) @@ ("name" :> nw[1]) @@ ("Industry" :> "Steel") @@
     ("market weight" :> nw[2]) @@ ("rating" :> "Buy") :
        s \in Symbols, nw \in {<<"Acme Corp", Q(1, 8)>>, <<NoneStr, None>>}}

EnrichTables == AllSeqs(BareRows, MaxEnrichRows) \cup AllSeqs(FullRows, MaxEnrichRows)

Pending == [raised |-> FALSE, value |-> <<>>]

InitEnrich ==
    /\ pc = "call"
    /\ args \in {[fn |-> "fetch_additional_company_data", df_with_symbols |-> t] :
                    t \in EnrichTables}
    /\ yf \in [Symbols -> Answers]
    /\ ret = Pending
    /\ fpe = {}
    /\ cache = <<>>
    /\ calls = <<>>

FetchAdditionalCompanyData ==
    /\ pc = "call"
    /\ args.fn = "fetch_additional_company_data"
    /\ ret' = fetch_additional_company_data(args.df_with_symbols, yf)
    /\ pc' = "done"
    /\ UNCHANGED <<args, yf, fpe, cache, calls>>

NextEnrich == FetchAdditionalCompanyData

SpecEnrich == InitEnrich /\ [][NextEnrich]_vars

(***************************************************************************)
(* Claims about fetch_additional_company_data.                             *)
(***************************************************************************)
EnrichReturned ==
    pc = "done" /\ args.fn = "fetch_additional_company_data" /\ ~ret.raised

\* the upstream dictionary behind row i of the input table
SourceInfo(i) == info_for(yf, args.df_with_symbols[i]["symbol"])

\* the rate table as the specification gives it
SpecRate(info) ==
    LET c == Get(info, "currency", NoneStr)
    IN  CASE c = "USD" -> Q(1, 1)
          [] c = "EUR" -> Q(11, 10)
          [] c = "GBP" -> Q(13, 10)
          [] c = "JPY" -> Q(7, 1000)
          [] c = "CAD" -> Q(3, 4)
          [] OTHER -> Q(1, 1)

\* source value x rate / 1,000,000
SpecConverted(info, key) == QDiv(QMul(info[key], SpecRate(info)), Whole(1000000))

\* C1: P/FCF is present iff the source market cap and the source free cash
\* flow are both present and the free cash flow is non-zero, and then it is
\* Market Cap / Free Cash Flow of the unrounded converted values, rounded to
\* two decimals on output (so a market cap of 0 gives a present P/FCF of 0).
C1_PfcfPresentIffBothPresent ==
    EnrichReturned =>
        \A i \in 1..Len(ret.value) :
            LET info == SourceInfo(i)
                present == /\ "marketCap" \in DOMAIN info
                           /\ "freeCashflow" \in DOMAIN info
                           /\ info["freeCashflow"][1] # 0
                pfcf == ret.value[i]["P/FCF"]
            IN  /\ (pfcf # None) <=> present
                /\ present =>
                     pfcf = Round2(QDiv(SpecConverted(info, "marketCap"),
                                        SpecConverted(info, "freeCashflow")))

\* C2: EBIT Margin (%) is the primary EBIT-margin fraction x 100 whenever the
\* primary field is present (0 included), the operating-margin fraction x 100
\* only when the primary field is absent, and absent only when both are;
\* Gross and EBITDA Margin are their fraction x 100.  (The two-decimal
\* rounding of the returned table is granted to the claim.)
C2_EbitMarginPrefersPrimary ==
    EnrichReturned =>
        \A i \in 1..Len(ret.value) :
            LET info == SourceInfo(i)
                row == ret.value[i]
                pct(key) == IF key \in DOMAIN info
                            THEN Round2(QMul(info[key], Whole(100))) ELSE None
            IN  /\ row["EBIT Margin (%)"] =
                     (IF "ebitMargins" \in DOMAIN info
                      THEN pct("ebitMargins") ELSE pct("operatingMargins"))
                /\ row["Gross Margin (%)"] = pct("grossMargins")
                /\ row["EBITDA Margin (%)"] = pct("ebitdaMargins")

\* C3 as stated: every monetary field of a returned row equals
\* source value x rate / 1,000,000 when the source value is present, and is
\* absent (never 0) when it is absent.
C3_MonetaryFieldsExact ==
    EnrichReturned =>
        \A i \in 1..Len(ret.value) :
            LET info == SourceInfo(i)
                exact(key) == IF key \in DOMAIN info
                              THEN SpecConverted(info, key) ELSE None
            IN  /\ ret.value[i]["Revenue (M USD)"] = exact("totalRevenue")
                /\ ret.value[i]["Market Cap (M USD)"] = exact("marketCap")
                /\ free_cashflow_of(info) = exact("freeCashflow")

\* C3 amended: Revenue and Market Cap of a returned row equal
\* source value x rate / 1,000,000 rounded to two decimals, the free cash flow
\* that enters P/FCF equals it unrounded; an absent source value gives an
\* absent field, a source value of 0 a present 0.
C3_MonetaryFieldsRounded ==
    EnrichReturned =>
        \A i \in 1..Len(ret.value) :
            LET info == SourceInfo(i)
                exact(key) == IF key \in DOMAIN info
                              THEN SpecConverted(info, key) ELSE None
            IN  /\ ret.value[i]["Revenue (M USD)"] = Round2(exact("totalRevenue"))
                /\ ret.value[i]["Market Cap (M USD)"] = Round2(exact("marketCap"))
                /\ free_cashflow_of(info) = exact("freeCashflow")

\* a returned table with a row in a listed foreign currency whose monetary
\* fields are present, and a row whose revenue is absent and whose market
\* cap is a present 0
C3_Witness ==
    /\ EnrichReturned
    /\ \E i, j \in 1..Len(ret.value) :
        /\ Get(SourceInfo(i), "currency", NoneStr) = "JPY"
        /\ ret.value[i]["Revenue (M USD)"] = Q(2, 100)
        /\ ret.value[i]["Market Cap (M USD)"] = Q(1, 100)
        /\ "totalRevenue" \notin DOMAIN SourceInfo(j)
        /\ ret.value[j]["Revenue (M USD)"] = None
        /\ Get(SourceInfo(j), "marketCap", None) = Whole(0)
        /\ ret.value[j]["Market Cap (M USD)"] = Whole(0)

\* C4: the call never raises; it returns one record per input row, and a row
\* whose fundamentals are missing or whose lookup failed has every
\* fundamental field absent.
C4_NeverAbortsTheBatch ==
    (pc = "done" /\ args.fn = "fetch_additional_company_data") =>
        /\ ~ret.raised
        /\ Len(ret.value) = Len(args.df_with_symbols)
        /\ \A i \in 1..Len(ret.value) :
            yf[args.df_with_symbols[i]["symbol"]].kind # "info" =>
                \A c \in {"Revenue (M USD)", "Market Cap (M USD)", "Gross Margin (%)",
                          "EBIT Margin (%)", "EBITDA Margin (%)", "P/E", "EV/EBITDA",
                          "EV/Sales", "P/FCF"} : ret.value[i][c] = None

(***************************************************************************)
(* Sorting and filtering of a company table.                               *)
(***************************************************************************)
MarketCap == "Market Cap (M USD)"

\* a cell that holds text where a number is expected
Text(t) == <<t>>

\* pd.to_numeric(x, errors="coerce"): what is not a number becomes NaN
to_numeric(x) == IF Len(x) = 2 THEN x ELSE None

HasColumn(df, column) == \A i \in 1..Len(df) : column \in DOMAIN df[i]

\* df["Market Cap (M USD)"] = pd.to_numeric(df["Market Cap (M USD)"], errors="coerce")
coerce_market_cap(df) ==
    [i \in 1..Len(df) |-> [df[i] EXCEPT ![MarketCap] = to_numeric(@)]]

Perms(n) ==
    {p \in [1..n -> 1..n] : \A i, j \in 1..n : p[i] = p[j] => i = j}

Take(df, p) == [i \in 1..Len(p) |-> df[p[i]]]

FirstRows(df, n) == SubSeq(df, 1, IF n < Len(df) THEN n ELSE Len(df))

\* p orders the rows by Market Cap descending, NaN rows last in their input
\* order (nargsort appends the NaN positions as they stand)
OrdersDescending(df, p) ==
    \A i, j \in 1..Len(df) : i < j =>
        LET a == df[p[i]][MarketCap]
            b == df[p[j]][MarketCap]
        IN  /\ a = None => b = None
            /\ (a # None /\ b # None) => QLe(b, a)
            /\ (a = None /\ b = None) => p[i] < p[j]

\* p keeps rows of equal Market Cap in their input order
KeepsTies(df, p) ==
    \A i, j \in 1..Len(df) :
        (i < j /\ df[p[i]][MarketCap] = df[p[j]][MarketCap]) => p[i] < p[j]

\* df.sort_values(by="Market Cap (M USD)", ascending=False) with the default
\* kind="quicksort", which is not a stable sort: every order of the rows of
\* equal Market Cap is an outcome
sort_values_descending(df) ==
    {Take(df, p) : p \in {q \in Perms(Len(df)) : OrdersDescending(df, q)}}

\* the one outcome of a stable sort (kind="mergesort")
sort_values_descending_stable(df) ==
    {Take(df, p) : p \in {q \in Perms(Len(df)) :
                            OrdersDescending(df, q) /\ KeepsTies(df, q)}}

\* df.reset_index(drop=True); df.index = df.index + 1
reset_index_from_one(df) ==
    [i \in 1..Len(df) |-> [df[i] EXCEPT ![IndexKey] = (i - 1) + 1]]

\* the outcomes of apply_final_sorting_and_formatting(df)
apply_final_sorting_and_formatting(df) ==
    LET sorted == IF HasColumn(df, MarketCap)
                  THEN sort_values_descending(coerce_market_cap(df))
                  ELSE {df}
    IN  {round_frame(reset_index_from_one(t)) : t \in sorted}

\* df.nlargest(n, "Market Cap (M USD)"): with n >= len(df) the column is sorted
\* by sort_values (default kind) and cut; otherwise the n largest are taken by a
\* mergesort, ties in input order, NaN rows filling up last
nlargest(df, n) ==
    IF n >= Len(df)
    THEN {FirstRows(t, n) : t \in sort_values_descending(df)}
    ELSE {FirstRows(t, n) : t \in sort_values_descending_stable(df)}

\* the range test with the bounds excluded
InRangeExclusive(cap, cap_range) ==
    cap # None /\ QLt(cap_range[1], cap) /\ QLt(cap, cap_range[2])

\* (cap >= cap_range[0]) & (cap <= cap_range[1]); NaN compares false
InRange(cap, cap_range) ==
    cap # None /\ QLe(cap_range[1], cap) /\ QLe(cap, cap_range[2])

Filter(df, Keep(_)) == SelectSeq(df, Keep)

\* the outcomes of apply_filters(df, cap_range, top_n, selected_ratings);
\* an optional argument is None or a 1-tuple (top_n, selected_ratings) or the
\* pair itself (cap_range); "if x:" is Python truthiness
apply_filters(df, cap_range, top_n, selected_ratings) ==
    LET coerced == IF HasColumn(df, MarketCap) THEN coerce_market_cap(df) ELSE df
        InCapRange(row) == InRange(row[MarketCap], cap_range)
        ranged == IF HasColumn(df, MarketCap) /\ cap_range # None
                  THEN Filter(coerced, InCapRange) ELSE coerced
        topped == IF HasColumn(df, MarketCap) /\ Truthy(top_n)
                  THEN nlargest(ranged, top_n[1]) ELSE {ranged}
        RatingSelected(row) == row["Rating"] \in selected_ratings[1]
    IN  IF selected_ratings # None /\ selected_ratings[1] # {} /\ HasColumn(df, "Rating")
        THEN {Filter(t, RatingSelected) : t \in topped}
        ELSE topped

(***************************************************************************)
(* The inputs of sorting and filtering: company tables under any index.    *)
(***************************************************************************)
MaxSortRows == 3

MaxFilterRows == 3

Ratings == {"Buy", "Hold"}

CapCells == {None, Text("n/a"), Whole(50), Whole(100), Whole(300)}

CompanyRows ==
    {(MarketCap :> c) @@ ("Rating" :> r) : c \in CapCells, r \in Ratings}

\* for the filters a missing Market Cap arrives as text, which the call coerces
FilterRows == {row \in CompanyRows : row[MarketCap] # None}

TickerAt == <<"AAA", "BBB", "CCC", "DDD", "EEE">>

\* a company table: the i-th row is the i-th ticker's
Named(rows) == [i \in 1..Len(rows) |-> rows[i] @@ ("Ticker" :> TickerAt[i])]

\* the rows under the index a filter left behind: labels 0, 2, 4, ...
Labelled(rows) == [i \in 1..Len(rows) |-> rows[i] @@ (IndexKey :> 2 * (i - 1))]

SortTables ==
    {Labelled(Named(rows)) : rows \in AllSeqs(CompanyRows, MaxSortRows)}

InitSort ==
    /\ pc = "call"
    /\ args \in {[fn |-> "apply_final_sorting_and_formatting", df |-> t] :
                    t \in SortTables}
    /\ yf = <<>>
    /\ ret = Pending
    /\ fpe = {}
    /\ cache = <<>>
    /\ calls = <<>>

ApplyFinalSortingAndFormatting ==
    /\ pc = "call"
    /\ args.fn = "apply_final_sorting_and_formatting"
    /\ \E out \in apply_final_sorting_and_formatting(args.df) :
          ret' = Returned(out)
    /\ pc' = "done"
    /\ UNCHANGED <<args, yf, fpe, cache, calls>>

NextSort == ApplyFinalSortingAndFormatting

SpecSort == InitSort /\ [][NextSort]_vars

CapRanges == {None, <<Whole(100), Whole(300)>>, <<Whole(100), Whole(100)>>}

TopNs == {None, <<0>>, <<1>>, <<2>>}

RatingChoices == {None, <<{}>>, <<{"Buy"}>>}

FilterTables ==
    {DataFrame(Named(rows)) : rows \in AllSeqs(FilterRows, MaxFilterRows)}

InitFilter ==
    /\ pc = "call"
    /\ args \in {[fn |-> "apply_filters", df |-> t, cap_range |-> c, top_n |-> n,
                  selected_ratings |-> r] :
                    t \in FilterTables, c \in CapRanges, n \in TopNs,
                    r \in RatingChoices}
    /\ yf = <<>>
    /\ ret = Pending
    /\ fpe = {}
    /\ cache = <<>>
    /\ calls = <<>>

ApplyFilters ==
    /\ pc = "call"
    /\ args.fn = "apply_filters"
    /\ \E out \in apply_filters(args.df, args.cap_range, args.top_n,
                                args.selected_ratings) :
          ret' = Returned(out)
    /\ pc' = "done"
    /\ UNCHANGED <<args, yf, fpe, cache, calls>>

NextFilter == ApplyFilters

SpecFilter == InitFilter /\ [][NextFilter]_vars

(***************************************************************************)
(* Claims about apply_filters and apply_final_sorting_and_formatting.      *)
(***************************************************************************)
FilterReturned == pc = "done" /\ args.fn = "apply_filters"

\* the rows of the input that pass the range and the rating criterion, as far
\* as each is given, in input order (the input as the call leaves it: the
\* call coerces its Market Cap column in place)
Passing ==
    LET Passes(row) ==
            /\ args.cap_range # None =>
                 /\ row[MarketCap] # None
                 /\ QLe(args.cap_range[1], row[MarketCap])
                 /\ QLe(row[MarketCap], args.cap_range[2])
            /\ Get(args.selected_ratings, 1, {}) # {} =>
                 row["Rating"] \in args.selected_ratings[1]
    IN  SelectSeq(coerce_market_cap(args.df), Passes)

\* C5: the result of apply_filters is the conjunction of the active filters:
\* every result row is a row of the input; with a range given every result
\* row has its Market Cap in [lo, hi] inclusive; with top_n given there are at
\* most top_n rows; with ratings given every result row's Rating is selected;
\* a criterion that is absent (None, 0 or empty) restricts nothing: without
\* top_n the result is exactly the passing rows, and with top_n alone it is
\* min(top_n, n) rows.
C5_FiltersAreConjunction ==
    FilterReturned =>
        LET out == ret.value
            input == coerce_market_cap(args.df)
            ratings == Get(args.selected_ratings, 1, {})
        IN  /\ \A i \in 1..Len(out) : \E k \in 1..Len(input) : out[i] = input[k]
            /\ args.cap_range # None =>
                 \A i \in 1..Len(out) :
                    /\ out[i][MarketCap] # None
                    /\ QLe(args.cap_range[1], out[i][MarketCap])
                    /\ QLe(out[i][MarketCap], args.cap_range[2])
            /\ Truthy(args.top_n) => Len(out) <= args.top_n[1]
            /\ ratings # {} => \A i \in 1..Len(out) : out[i]["Rating"] \in ratings
            /\ ~Truthy(args.top_n) => out = Passing
            /\ (Truthy(args.top_n) /\ args.cap_range = None /\ ratings = {}) =>
                 Len(out) = (IF args.top_n[1] < Len(input)
                             THEN args.top_n[1] ELSE Len(input))

\* all three criteria given on three rows: the range drops the first row,
\* top_n the second, and the third is returned under its own label
C5_Witness ==
    /\ FilterReturned
    /\ args.cap_range = <<Whole(100), Whole(300)>>
    /\ args.top_n = <<1>>
    /\ args.selected_ratings = <<{"Buy"}>>
    /\ Len(args.df) = 3
    /\ args.df[1][MarketCap] = Whole(50)
    /\ args.df[2][MarketCap] = Whole(100)
    /\ Len(ret.value) = 1
    /\ ret.value[1] = args.df[3]

SortReturned == pc = "done" /\ args.fn = "apply_final_sorting_and_formatting"

\* the input position of the output row i (tickers are one per position)
InputPosition(i) ==
    CHOOSE k \in 1..Len(args.df) : args.df[k]["Ticker"] = ret.value[i]["Ticker"]

\* C6: apply_final_sorting_and_formatting returns the same rows (Market Cap
\* coerced to a number) ordered by Market Cap descending, the rows without a
\* numeric Market Cap after all numeric rows, rows of equal Market Cap in
\* their input order, under the index 1..n.
C6_SortIsStableDescending ==
    SortReturned =>
        LET out == ret.value
            input == coerce_market_cap(args.df)
            n == Len(out)
        IN  /\ n = Len(input)
            /\ \E p \in Perms(n) :
                  \A i \in 1..n :
                     [out[i] EXCEPT ![IndexKey] = input[p[i]][IndexKey]] = input[p[i]]
            /\ \A i, j \in 1..n : i < j =>
                  /\ out[i][MarketCap] = None => out[j][MarketCap] = None
                  /\ (out[i][MarketCap] # None /\ out[j][MarketCap] # None) =>
                        QLe(out[j][MarketCap], out[i][MarketCap])
                  /\ out[i][MarketCap] = out[j][MarketCap] =>
                        InputPosition(i) < InputPosition(j)
            /\ \A i \in 1..n : out[i][IndexKey] = i

(***************************************************************************)
(* normalise_for_gradient (logic.py; main.py holds the same function).     *)
(* A Series is a sequence of [index, value] entries.                       *)
(***************************************************************************)
\* pd.to_numeric(series, errors="coerce").dropna()
numeric_series(series) ==
    LET IsNumeric(e) == to_numeric(e.value) # None
    IN  SelectSeq(series, IsNumeric)

\* the values of a series in ascending order
Ascending(series) ==
    LET n == Len(series)
        p == CHOOSE q \in Perms(n) :
                \A i, j \in 1..n : i < j => QLe(series[q[i]].value, series[q[j]].value)
    IN  [i \in 1..n |-> series[p[i]].value]

\* Series.quantile(k/20), linear interpolation between the two neighbours of
\* position (n-1)*k/20; NaN for an empty series
quantile(series, k) ==
    LET n == Len(series)
        s == Ascending(series)
        i == ((n - 1) * k) \div 20
        r == ((n - 1) * k) % 20
    IN  IF n = 0 THEN None
        ELSE IF r = 0 THEN s[i + 1]
        ELSE QAdd(s[i + 1], QMul(Q(r, 20), QSub(s[i + 2], s[i + 1])))

\* the value left as it is
clip_nothing(v, lower, upper) == v

\* Series.clip(lower, upper) on one value
clip(v, lower, upper) ==
    IF QLt(v, lower) THEN lower ELSE IF QLt(upper, v) THEN upper ELSE v

\* IEEE-754 division a / b: 0/0 is NaN, x/0 is an infinity <<+-1, 0>>
float_div(a, b) ==
    IF b[1] # 0 THEN QDiv(a, b)
    ELSE IF a[1] = 0 THEN None
    ELSE <<(IF a[1] < 0 THEN -1 ELSE 1), 0>>

\* the exception flags that division raises
float_div_flags(a, b) ==
    IF b[1] # 0 THEN {} ELSE IF a[1] = 0 THEN {"invalid"} ELSE {"divide-by-zero"}

\* 1 - x; NaN stays NaN
one_minus(x) == IF x = None THEN None ELSE QSub(Whole(1), x)

\* (clipped - lower) / (upper - lower), then 1 - that if reverse, per entry
normalised_entry(v, lower, upper, reverse) ==
    LET x == float_div(QSub(clip(v, lower, upper), lower), QSub(upper, lower))
    IN  IF reverse THEN one_minus(x) ELSE x

\* normalised.reindex(series.index, fill_value=None): the value of a numeric
\* entry, NaN at the labels that dropna removed
normalise_for_gradient(series, reverse) ==
    LET numeric == numeric_series(series)
        lower == quantile(numeric, 1)
        upper == quantile(numeric, 19)
    IN  [i \in 1..Len(series) |->
            [index |-> series[i].index,
             value |-> IF to_numeric(series[i].value) = None THEN None
                       ELSE normalised_entry(series[i].value, lower, upper, reverse)]]

\* the flags raised by the divisions of one call
normalise_flags(series) ==
    LET numeric == numeric_series(series)
        lower == quantile(numeric, 1)
        upper == quantile(numeric, 19)
    IN  UNION {float_div_flags(QSub(clip(numeric[i].value, lower, upper), lower),
                               QSub(upper, lower)) : i \in 1..Len(numeric)}

MaxSeriesLen == 3

SeriesCells == {None, Text("n/a"), Whole(0), Whole(1), Whole(2), Q(11, 2)}

\* a column of a table indexed from 0 (as enriched) or from 1 (as sorted)
SeriesInputs ==
    {[i \in 1..Len(cells) |-> [index |-> first + i - 1, value |-> cells[i]]] :
        cells \in AllSeqs(SeriesCells, MaxSeriesLen), first \in {0, 1}}

InitNormalise ==
    /\ pc = "call"
    /\ args \in {[fn |-> "normalise_for_gradient", series |-> c, reverse |-> r] :
                    c \in SeriesInputs, r \in BOOLEAN}
    /\ yf = <<>>
    /\ ret = Pending
    /\ fpe = {}
    /\ cache = <<>>
    /\ calls = <<>>

NormaliseForGradient ==
    /\ pc = "call"
    /\ args.fn = "normalise_for_gradient"
    /\ ret' = Returned(normalise_for_gradient(args.series, args.reverse))
    /\ fpe' = fpe \cup normalise_flags(args.series)
    /\ pc' = "done"
    /\ UNCHANGED <<args, yf, cache, calls>>

NextNormalise == NormaliseForGradient

SpecNormalise == InitNormalise /\ [][NextNormalise]_vars

(***************************************************************************)
(* Claims about normalise_for_gradient.                                    *)
(***************************************************************************)
NormaliseReturned == pc = "done" /\ args.fn = "normalise_for_gradient"

Lower == quantile(numeric_series(args.series), 1)

Upper == quantile(numeric_series(args.series), 19)

\* the value the claim gives a numeric entry v before any reversal
SpecScaled(v) ==
    IF QLe(v, Lower) THEN Whole(0)
    ELSE IF QLe(Upper, v) THEN Whole(1)
    ELSE QDiv(QSub(v, Lower), QSub(Upper, Lower))

\* the output keeps the input's index, a non-numeric entry is absent at its
\* own position, and every numeric entry is in [0, 1], 0 at or below the 5th
\* percentile, 1 at or above the 95th, linear in between, monotone, and 1 minus
\* that with reverse=True
NormalisedAsClaimed ==
    LET out == ret.value
        series == args.series
        n == Len(series)
        IsNumeric(i) == to_numeric(series[i].value) # None
    IN  /\ Len(out) = n
        /\ \A i \in 1..n : out[i].index = series[i].index
        /\ \A i \in 1..n : ~IsNumeric(i) => out[i].value = None
        /\ \A i \in 1..n : IsNumeric(i) =>
              /\ out[i].value # None
              /\ out[i].value[2] # 0
              /\ QLe(Whole(0), out[i].value) /\ QLe(out[i].value, Whole(1))
              /\ out[i].value = (IF args.reverse
                                 THEN QSub(Whole(1), SpecScaled(series[i].value))
                                 ELSE SpecScaled(series[i].value))
        /\ \A i, j \in 1..n :
              (IsNumeric(i) /\ IsNumeric(j) /\ QLe(series[i].value, series[j].value)) =>
                  IF args.reverse THEN QLe(out[j].value, out[i].value)
                  ELSE QLe(out[i].value, out[j].value)

\* C7 as stated: the above for every column.
C7_NormalisedEveryColumn == NormaliseReturned => NormalisedAsClaimed

\* C7 amended: the above for every column whose 5th and 95th percentiles
\* differ or that has no numeric entry; in every column the output keeps the
\* input's index and a non-numeric entry is absent at its own position.
C7_NormalisedWherePercentilesDiffer ==
    NormaliseReturned =>
        /\ (Lower # Upper \/ numeric_series(args.series) = <<>>) => NormalisedAsClaimed
        /\ Len(ret.value) = Len(args.series)
        /\ \A i \in 1..Len(args.series) :
              /\ ret.value[i].index = args.series[i].index
              /\ to_numeric(args.series[i].value) = None => ret.value[i].value = None

\* a reversed column of three entries, a text cell among them: the smaller
\* number maps to 1, the larger to 0, the text cell to nothing
C7_Witness ==
    /\ NormaliseReturned
    /\ args.reverse
    /\ Len(args.series) = 3
    /\ args.series[1].value = Whole(2)
    /\ args.series[2].value = Text("n/a")
    /\ args.series[3].value = Whole(0)
    /\ ret.value[1].value = Whole(0)
    /\ ret.value[2].value = None
    /\ ret.value[3].value = Whole(1)

\* C8: when the 5th and the 95th percentile of the numeric entries are equal,
\* no division by zero is performed (no 0/0, no x/0) and every entry gets an
\* absent normalised value.
C8_DegenerateColumnGuarded ==
    (NormaliseReturned /\ numeric_series(args.series) # <<>> /\ Lower = Upper) =>
        /\ fpe = {}
        /\ \A i \in 1..Len(ret.value) : ret.value[i].value = None

(***************************************************************************)
(* process_uploaded_tickers.  The uploaded sheet is a sequence of rows of   *)
(* cells; a cell is empty (NaN) or holds text, written as the tuple of its  *)
(* characters so that trimming and upper-casing act on it.  An optional     *)
(* value of the returned pair is None or a 1-tuple.                         *)
(***************************************************************************)
Some(x) == <<x>>

Unreadable == [readable |-> FALSE, sheet |-> <<>>]

Sheet(rows) == [readable |-> TRUE, sheet |-> rows]

\* custom_df.shape[1]: a sheet without cells is read as a frame without columns
Width(sheet) == IF sheet = <<>> THEN 0 ELSE Len(sheet[1])

RECURSIVE lstrip(_)
lstrip(chars) ==
    IF chars # <<>> /\ chars[1] = " " THEN lstrip(Tail(chars)) ELSE chars

RECURSIVE rstrip(_)
rstrip(chars) ==
    IF chars # <<>> /\ chars[Len(chars)] = " "
    THEN rstrip(SubSeq(chars, 1, Len(chars) - 1)) ELSE chars

\* str.strip()
strip(chars) == rstrip(lstrip(chars))

\* str.upper()
upper(chars) ==
    [i \in 1..Len(chars) |->
        CASE chars[i] = "a" -> "A"
          [] chars[i] = "b" -> "B"
          [] OTHER -> chars[i]]

\* the list as it is
keep_duplicates(list) == list

\* Series.drop_duplicates(): the first occurrence of each value is kept
RECURSIVE drop_duplicates(_)
drop_duplicates(list) ==
    IF list = <<>> THEN <<>>
    ELSE LET rest == drop_duplicates(SubSeq(list, 1, Len(list) - 1))
             last == list[Len(list)]
         IN  IF \E i \in 1..Len(rest) : rest[i] = last
             THEN rest ELSE Append(rest, last)

\* tickers[~tickers.isna()].astype(str).str.strip().str.upper(), then the
\* empty strings removed, over the first column
normalised_tickers(sheet) ==
    LET first == [i \in 1..Len(sheet) |-> sheet[i][1]]
        NotNaN(cell) == cell # None
        present == SelectSeq(first, NotNaN)
        cleaned == [i \in 1..Len(present) |-> upper(strip(present[i][1]))]
        NotEmpty(t) == t # <<>>
    IN  SelectSeq(cleaned, NotEmpty)

\* custom_df.shape[1] > 1 and custom_df.iloc[:, 1:].notna().any().any()
extra_columns_detected(sheet) ==
    /\ Width(sheet) > 1
    /\ \E i \in 1..Len(sheet) : \E j \in 2..Width(sheet) : sheet[i][j] # None

\* pd.concat([a, b], ignore_index=True)
concat_ignore_index(a, b) ==
    [i \in 1..(Len(a) + Len(b)) |->
        [(IF i <= Len(a) THEN a[i] ELSE b[i - Len(a)]) EXCEPT ![IndexKey] = i - 1]]

ReadError == "Error reading uploaded file"

ShapeError == "Excel file must contain exactly 1 ticker per row (extra columns detected)."

NoTickersError == "No valid tickers found in uploaded file. Ensure 1 ticker per row."

\* the whole call; existing_df None and an empty existing_df are both <<>>
process_uploaded_tickers(uploaded_file, existing_df, yf_info) ==
    LET sheet == uploaded_file.sheet
        tickers == drop_duplicates(normalised_tickers(sheet))
        names == [i \in 1..Len(tickers) |->
                    Get(info_for(yf_info, tickers[i]), "shortName", NoneStr)]
        df_symbols == [i \in 1..Len(tickers) |->
                        ("symbol" :> tickers[i]) @@ ("name" :> names[i])]
        uploaded_data_df == fetch_additional_company_data(df_symbols, yf_info)
    IN  IF ~uploaded_file.readable THEN Returned(<<None, Some(ReadError)>>)
        ELSE IF Width(sheet) = 0 THEN Raised   \* custom_df.iloc[:, 0]: IndexError
        ELSE IF extra_columns_detected(sheet) THEN Returned(<<None, Some(ShapeError)>>)
        ELSE IF tickers = <<>> THEN Returned(<<None, Some(NoTickersError)>>)
        ELSE IF \E i \in 1..Len(tickers) : yf_info[tickers[i]].kind = "raises"
             THEN Raised                       \* .info raises, nothing catches it
        ELSE IF uploaded_data_df.raised THEN Raised
        ELSE IF existing_df # <<>>
             THEN Returned(<<Some(concat_ignore_index(existing_df,
                                                      uploaded_data_df.value)), None>>)
        ELSE Returned(<<Some(uploaded_data_df.value), None>>)

MaxUploadRows == 2

\* an empty cell, a blank cell, and the spellings of two tickers
TickerCells ==
    {None, Text(<<>>), Text(<<" ">>), Text(<<"a">>), Text(<<"A">>), Text(<<" ", "a">>),
     Text(<<"a", " ">>), Text(<<"B">>)}

ExtraCells == {None, Text(<<"x">>)}

Sheets ==
    (UNION {[1..k -> {<<c>> : c \in TickerCells}] : k \in 0..MaxUploadRows})
    \cup (UNION {[1..k -> {<<c, x>> : c \in TickerCells, x \in ExtraCells}] :
                    k \in 1..MaxUploadRows})

UploadedFiles == {Unreadable} \cup {Sheet(rows) : rows \in Sheets}

\* the tickers those cells spell
UploadTickers == {upper(strip(c[1])) : c \in TickerCells \ {None}} \ {<<>>}

UploadAnswers ==
    {Missing, Raises,
     Answer(("shortName" :> "Acme Corp") @@ ("marketCap" :> Whole(1234567)) @@
            ("freeCashflow" :> Whole(300000)))}

\* the table the session already holds: none, or one enriched row of ticker A
ExistingTables ==
    {<<>>,
     round_frame(DataFrame(<<enrich_row(<<"A">>, "Old Corp", "Steel", Q(1, 8), "Buy",
                                        "marketCap" :> Whole(2500000))>>))}

InitUpload ==
    /\ pc = "call"
    /\ args \in {[fn |-> "process_uploaded_tickers", uploaded_file |-> f,
                  existing_df |-> e] : f \in UploadedFiles, e \in ExistingTables}
    /\ yf \in [UploadTickers -> UploadAnswers]
    /\ ret = Pending
    /\ fpe = {}
    /\ cache = <<>>
    /\ calls = <<>>

ProcessUploadedTickers ==
    /\ pc = "call"
    /\ args.fn = "process_uploaded_tickers"
    /\ ret' = process_uploaded_tickers(args.uploaded_file, args.existing_df, yf)
    /\ pc' = "done"
    /\ UNCHANGED <<args, yf, fpe, cache, calls>>

NextUpload == ProcessUploadedTickers

SpecUpload == InitUpload /\ [][NextUpload]_vars

(***************************************************************************)
(* Claims about process_uploaded_tickers.                                  *)
(***************************************************************************)
UploadDone == pc = "done" /\ args.fn = "process_uploaded_tickers"

\* the first-column cells that spell a ticker, trimmed and upper-cased
SpelledTickers ==
    LET sheet == args.uploaded_file.sheet
        Spells(row) == row[1] # None /\ upper(strip(row[1][1])) # <<>>
        rows == SelectSeq(sheet, Spells)
    IN  [i \in 1..Len(rows) |-> upper(strip(rows[i][1][1]))]

\* the distinct ones, each at its first occurrence
RECURSIVE FirstOccurrences(_, _)
FirstOccurrences(list, seen) ==
    IF list = <<>> THEN <<>>
    ELSE IF list[1] \in seen THEN FirstOccurrences(Tail(list), seen)
    ELSE <<list[1]>> \o FirstOccurrences(Tail(list), seen \cup {list[1]})

\* some cell outside the first column is not empty
PopulatedOutsideFirstColumn ==
    \E i \in 1..Len(args.uploaded_file.sheet) :
        \E j \in 2..Len(args.uploaded_file.sheet[i]) :
            args.uploaded_file.sheet[i][j] # None

\* C9: process_uploaded_tickers never raises and returns a pair with exactly
\* one None: (None, read error) for an unreadable file; (None, shape error)
\* for a file with a non-empty cell outside the first column, before the
\* ticker count is looked at; (None, no-valid-tickers error) for a file whose
\* first column spells no ticker, a sheet without cells included.
C9_UploadNeverRaises ==
    UploadDone =>
        /\ ~ret.raised
        /\ (ret.value[1] = None) # (ret.value[2] = None)
        /\ ~args.uploaded_file.readable => ret.value = <<None, Some(ReadError)>>
        /\ (args.uploaded_file.readable /\ PopulatedOutsideFirstColumn) =>
              ret.value = <<None, Some(ShapeError)>>
        /\ (args.uploaded_file.readable /\ ~PopulatedOutsideFirstColumn
                /\ SpelledTickers = <<>>) =>
              ret.value = <<None, Some(NoTickersError)>>

UploadSucceeded == UploadDone /\ ~ret.raised /\ ret.value[2] = None

\* a row without its index label
Unlabelled(row) == [c \in DOMAIN row \ {IndexKey} |-> row[c]]

\* C10: a successful upload returns the rows of existing_df, unchanged and in
\* order, followed by one enriched row per distinct uploaded ticker (trimmed,
\* upper-cased, in order of first occurrence); nothing is removed for being
\* in existing_df already, so there are |existing_df| + (distinct tickers)
\* rows, and no two uploaded rows share a ticker.
C10_UploadAppendsDistinctTickers ==
    UploadSucceeded =>
        LET table == ret.value[1][1]
            existing == args.existing_df
            distinct == FirstOccurrences(SpelledTickers, {})
            k == Len(existing)
        IN  /\ Len(table) = k + Len(distinct)
            /\ \A i \in 1..k : Unlabelled(table[i]) = Unlabelled(existing[i])
            /\ \A i \in 1..Len(distinct) :
                  /\ table[k + i]["Ticker"] = distinct[i]
                  /\ DOMAIN table[k + i] = {Columns[c] : c \in 1..Len(Columns)}
                                              \cup {IndexKey}
                  /\ yf[distinct[i]].kind = "info" =>
                        table[k + i]["Market Cap (M USD)"] =
                            Round2(SpecConverted(yf[distinct[i]].info, "marketCap"))
            /\ \A i, j \in (k + 1)..Len(table) :
                  table[i]["Ticker"] = table[j]["Ticker"] => i = j

\* ticker A, already in existing_df, is uploaded under two spellings: the
\* result is the old A row followed by one new A row
C10_Witness ==
    /\ UploadSucceeded
    /\ Len(args.existing_df) = 1
    /\ Len(args.uploaded_file.sheet) = 2
    /\ args.uploaded_file.sheet[1][1] = Text(<<" ", "a">>)
    /\ args.uploaded_file.sheet[2][1] = Text(<<"A">>)
    /\ Len(ret.value[1][1]) = 2
    /\ ret.value[1][1][1]["Ticker"] = <<"A">>
    /\ ret.value[1][1][2]["Ticker"] = <<"A">>
    /\ ret.value[1][1][1]["Name"] = "Old Corp"

(***************************************************************************)
(* st.cache_data: the value a decorated function returned is kept under    *)
(* the function and its arguments, and a later call with the same          *)
(* arguments is answered from there; nothing in the code clears it.        *)
(***************************************************************************)
\* a memo that keeps nothing
store_nothing(memo, key, value) == memo

store(memo, key, value) == IF key \in DOMAIN memo THEN memo ELSE memo @@ (key :> value)

\* one entry of the history of calls
Call(fn, key, upstream, value) ==
    [fn |-> fn, key |-> key, upstream |-> upstream, value |-> value]

(***************************************************************************)
(* combine_industry_dataframes.  The company table of an industry is None  *)
(* or a frame: its rows, and the name of its index (yfinance lists the     *)
(* companies of an industry under an index named "symbol").                *)
(***************************************************************************)
MaxIndustries == 2

\* the body of get_companies_for_industry: yf.Industry(industry_key), then the
\* attribute that data_method names; any exception gives None
companies_for_industry(industry_key, data_method, yf_industry) ==
    IF yf_industry[industry_key].kind = "raises"
    THEN None
    ELSE yf_industry[industry_key].tables[data_method]

CompaniesKey(industry_key, data_method) ==
    <<"get_companies_for_industry", industry_key, data_method>>

\* the decorated function: the memo's value when there is one
get_companies_for_industry(industry_key, data_method, memo, yf_industry) ==
    IF CompaniesKey(industry_key, data_method) \in DOMAIN memo
    THEN memo[CompaniesKey(industry_key, data_method)]
    ELSE companies_for_industry(industry_key, data_method, yf_industry)

\* df.reset_index(): the index becomes a column under its name
reset_index(frame) ==
    [i \in 1..Len(frame.rows) |->
        [c \in (DOMAIN frame.rows[i]) \cup {frame.index_name} |->
            IF c = frame.index_name THEN frame.rows[i][IndexKey]
            ELSE IF c = IndexKey THEN i - 1
            ELSE frame.rows[i][c]]]

\* if 'symbol' not in df.columns and df.index.name == 'symbol': df = df.reset_index()
with_symbol_column(frame) ==
    IF ~HasColumn(frame.rows, "symbol") /\ frame.index_name = "symbol"
    THEN reset_index(frame)
    ELSE frame.rows

\* df["Industry"] = industry_name
tagged(df, industry_name) ==
    [i \in 1..Len(df) |->
        [c \in (DOMAIN df[i]) \cup {"Industry"} |->
            IF c = "Industry" THEN industry_name ELSE df[i][c]]]

\* zip(industry_names, industry_keys) stops at the shorter list
zipped(industry_names, industry_keys) ==
    IF Len(industry_names) <= Len(industry_keys)
    THEN Len(industry_names) ELSE Len(industry_keys)

\* the loop, from pair i on: the list of tagged frames of the industries
\* whose table is neither None nor empty
RECURSIVE combined_list(_, _, _, _, _, _)
combined_list(i, industry_names, industry_keys, data_method, memo, yf_industry) ==
    IF i > zipped(industry_names, industry_keys) THEN <<>>
    ELSE LET df == get_companies_for_industry(industry_keys[i], data_method,
                                              memo, yf_industry)
             stored == store(memo, CompaniesKey(industry_keys[i], data_method), df)
             rest == combined_list(i + 1, industry_names, industry_keys,
                                   data_method, stored, yf_industry)
         IN  IF df # None /\ df[1].rows # <<>>
             THEN <<tagged(with_symbol_column(df[1]), industry_names[i])>> \o rest
             ELSE rest

\* pd.concat(combined_list, ignore_index=True)
RECURSIVE concat(_)
concat(frames) ==
    IF frames = <<>> THEN <<>>
    ELSE concat_ignore_index(Head(frames), concat(Tail(frames)))

\* the whole call
combine_industry_dataframes(industry_names, industry_keys, data_method, memo, upstream) ==
    LET list == combined_list(1, industry_names, industry_keys, data_method,
                              memo, upstream.industry)
    IN  IF list = <<>>
        THEN Returned(<<>>)                                  \* pd.DataFrame()
        ELSE fetch_additional_company_data(concat(list), upstream.info)

\* the memo after the loop: every pair's lookup is in it
RECURSIVE combine_memo(_, _, _, _, _)
combine_memo(i, industry_keys, data_method, memo, yf_industry) ==
    IF i > Len(industry_keys) THEN memo
    ELSE combine_memo(i + 1, industry_keys, data_method,
            store(memo, CompaniesKey(industry_keys[i], data_method),
                  get_companies_for_industry(industry_keys[i], data_method,
                                             memo, yf_industry)),
            yf_industry)

\* the calls the loop and the enrichment make, in order
combine_calls(industry_names, industry_keys, data_method, memo, upstream) ==
    LET n == zipped(industry_names, industry_keys)
        list == combined_list(1, industry_names, industry_keys, data_method,
                              memo, upstream.industry)
        lookups ==
            [i \in 1..n |->
                Call("get_companies_for_industry", <<industry_keys[i], data_method>>,
                     /\ CompaniesKey(industry_keys[i], data_method) \notin DOMAIN memo
                     /\ \A j \in 1..(i - 1) : industry_keys[j] # industry_keys[i],
                     get_companies_for_industry(industry_keys[i], data_method,
                                                memo, upstream.industry))]
    IN  IF list = <<>> THEN lookups
        ELSE lookups \o
             <<Call("fetch_additional_company_data", concat(list), TRUE,
                    fetch_additional_company_data(concat(list), upstream.info))>>

(***************************************************************************)
(* The inputs of the aggregation: the chosen industries, the ranking, and  *)
(* what upstream lists for each industry and answers for each symbol.      *)
(***************************************************************************)
DataMethods == {"top_companies", "top_growth_companies", "top_performing_companies"}

IndustryPairs == {<<"Steel", "steel">>, <<"Gold", "gold">>}

IndustryKeys == {p[2] : p \in IndustryPairs}

\* the columns of a listed company: the market-cap ranking carries a rating
\* and a market weight, the other two a return
ListedCompany(data_method) ==
    ("name" :> "Acme Corp") @@
    (IF data_method = "top_companies"
     THEN ("rating" :> "Buy") @@ ("market weight" :> Q(1, 8))
     ELSE ("ytd return" :> Q(1, 10)))

\* a company table with the symbols as its index, or as a column
SymbolIndexed(symbols, data_method) ==
    [index_name |-> "symbol",
     rows |-> [i \in 1..Len(symbols) |->
                  ListedCompany(data_method) @@ (IndexKey :> symbols[i])]]

SymbolColumned(symbols, data_method) ==
    [index_name |-> NoneStr,
     rows |-> [i \in 1..Len(symbols) |->
                  ("symbol" :> symbols[i]) @@ ListedCompany(data_method)
                      @@ (IndexKey :> (i - 1))]]

SymbolLists == {<<>>, <<"AAA">>, <<"BBB", "AAA">>}

\* the lookup raises; the attribute is None; the attribute is a table
IndustryAnswers ==
    {[kind |-> "raises", tables |-> <<>>],
     [kind |-> "answers", tables |-> [m \in DataMethods |-> None]]}
    \cup {[kind |-> "answers",
           tables |-> [m \in DataMethods |-> Some(SymbolIndexed(l, m))]] :
            l \in SymbolLists}
    \cup {[kind |-> "answers",
           tables |-> [m \in DataMethods |-> Some(SymbolColumned(l, m))]] :
            l \in SymbolLists}

CombineAnswers ==
    {Missing, Raises,
     Answer(("currency" :> "EUR") @@ ("marketCap" :> Whole(1234567)) @@
            ("freeCashflow" :> Whole(300000)))}

Selections == AllSeqs(IndustryPairs, MaxIndustries)

InitCombine ==
    /\ pc = "call"
    /\ args \in {[fn |-> "combine_industry_dataframes",
                  industry_names |-> [i \in 1..Len(s) |-> s[i][1]],
                  industry_keys |-> [i \in 1..Len(s) |-> s[i][2]],
                  data_method |-> m] : s \in Selections, m \in DataMethods}
    /\ yf \in {[industry |-> a, info |-> b] :
                  a \in [IndustryKeys -> IndustryAnswers],
                  b \in [Symbols -> CombineAnswers]}
    /\ ret = Pending
    /\ fpe = {}
    /\ cache = <<>>
    /\ calls = <<>>

CombineIndustryDataframes ==
    /\ pc = "call"
    /\ args.fn = "combine_industry_dataframes"
    /\ ret' = combine_industry_dataframes(args.industry_names, args.industry_keys,
                                          args.data_method, cache, yf)
    /\ cache' = combine_memo(1, SubSeq(args.industry_keys, 1,
                                       zipped(args.industry_names, args.industry_keys)),
                             args.data_method, cache, yf.industry)
    /\ calls' = calls \o combine_calls(args.industry_names, args.industry_keys,
                                       args.data_method, cache, yf)
    /\ pc' = "done"
    /\ UNCHANGED <<args, yf, fpe>>

NextCombine == CombineIndustryDataframes

SpecCombine == InitCombine /\ [][NextCombine]_vars

(***************************************************************************)
(* Claims about combine_industry_dataframes.                               *)
(***************************************************************************)
CombineDone == pc = "done" /\ args.fn = "combine_industry_dataframes"

\* the symbols upstream lists for an industry under the chosen ranking, in
\* its order; none when the lookup fails or lists nothing
ListedSymbols(industry_key) ==
    LET answer == yf.industry[industry_key]
    IN  IF answer.kind = "raises" THEN <<>>
        ELSE IF answer.tables[args.data_method] = None THEN <<>>
        ELSE LET rows == answer.tables[args.data_method][1].rows
             IN  [i \in 1..Len(rows) |->
                    IF "symbol" \in DOMAIN rows[i]
                    THEN rows[i]["symbol"] ELSE rows[i][IndexKey]]

\* <<symbol, industry name>> of every listed company row, from selection i
\* on: selection order, then upstream order
RECURSIVE SelectedCompanies(_)
SelectedCompanies(i) ==
    IF i > Len(args.industry_keys) THEN <<>>
    ELSE LET listed == ListedSymbols(args.industry_keys[i])
         IN  [k \in 1..Len(listed) |-> <<listed[k], args.industry_names[i]>>]
                \o SelectedCompanies(i + 1)

EnrichmentCalled ==
    \E k \in 1..Len(calls) : calls[k].fn = "fetch_additional_company_data"

\* C11: the call never raises and returns one enriched row per company row
\* that upstream lists for the selected industries (an industry whose lookup
\* fails or lists nothing contributes none), in selection order and then
\* upstream order, each row carrying its symbol and the name of the industry
\* it was listed under, duplicates kept; when no selected industry lists a
\* company the result is the empty table and enrichment is not called.
C11_CombineTagsAndKeepsOrder ==
    CombineDone =>
        LET expected == SelectedCompanies(1)
        IN  /\ ~ret.raised
            /\ Len(ret.value) = Len(expected)
            /\ \A i \in 1..Len(expected) :
                  /\ ret.value[i]["Ticker"] = expected[i][1]
                  /\ ret.value[i]["Industry"] = expected[i][2]
                  /\ DOMAIN ret.value[i] = {Columns[c] : c \in 1..Len(Columns)}
                                              \cup {IndexKey}
                  /\ yf.info[expected[i][1]].kind = "info" =>
                        ret.value[i]["Market Cap (M USD)"] =
                            Round2(SpecConverted(yf.info[expected[i][1]].info,
                                                 "marketCap"))
            /\ expected = <<>> => (ret.value = <<>> /\ ~EnrichmentCalled)

(***************************************************************************)
(* get_industries_for_sector over a session.  main.py calls it on every    *)
(* rerun in which a sector is selected; between two calls the upstream API *)
(* may start or stop failing, or list other industries.                    *)
(***************************************************************************)
MaxCalls == 3

\* dict(zip(df["name"], df.index)): a later row replaces an earlier one of
\* the same name
dict_zip(rows) ==
    [name \in {rows[i]["name"] : i \in 1..Len(rows)} |->
        LET last == CHOOSE i \in 1..Len(rows) :
                        /\ rows[i]["name"] = name
                        /\ \A j \in (i + 1)..Len(rows) : rows[j]["name"] # name
        IN  rows[last][IndexKey]]

\* the body: yf.Sector(sector_key).industries turned into a dictionary; an
\* exception anywhere (the lookup raises, industries is None, the frame has
\* no "name" column) gives {}
industries_for_sector(sector_key, yf_sector) ==
    LET sector == yf_sector[sector_key]
    IN  IF sector.kind = "raises" THEN <<>>
        ELSE IF sector.industries = None THEN <<>>          \* TypeError
        ELSE IF ~HasColumn(sector.industries[1], "name") THEN <<>>   \* KeyError
        ELSE dict_zip(sector.industries[1])

SectorKeyOf(sector_key) == <<"get_industries_for_sector", sector_key>>

\* the decorated function: the memo's value when there is one
get_industries_for_sector(sector_key, memo, yf_sector) ==
    IF SectorKeyOf(sector_key) \in DOMAIN memo
    THEN memo[SectorKeyOf(sector_key)]
    ELSE industries_for_sector(sector_key, yf_sector)

(***************************************************************************)
(* The session: sector keys and what upstream may answer for a sector.     *)
(***************************************************************************)
SectorKeys == {"energy", "technology"}

Industries(listed) ==
    [kind |-> "answers",
     industries |-> Some([i \in 1..Len(listed) |->
                            ("name" :> listed[i][1]) @@ (IndexKey :> listed[i][2])])]

\* the lookup raises; industries is None; the frame has no "name" column; the
\* frame lists nothing, one industry, two, or one name under two keys
SectorAnswers ==
    {[kind |-> "raises", industries |-> None],
     [kind |-> "answers", industries |-> None],
     [kind |-> "answers", industries |-> Some(<<(IndexKey :> "steel")>>)],
     Industries(<<>>),
     Industries(<<<<"Steel", "steel">>>>),
     Industries(<<<<"Steel", "steel">>, <<"Gold", "gold">>>>),
     Industries(<<<<"Steel", "steel">>, <<"Steel", "steel-2">>>>)}

InitSession ==
    /\ pc = "idle"
    /\ args = [fn |-> "get_industries_for_sector", sector_key |-> NoneStr]
    /\ yf \in [SectorKeys -> SectorAnswers]
    /\ ret = Pending
    /\ fpe = {}
    /\ cache = <<>>
    /\ calls = <<>>

\* the user picks a sector: the script reruns down to the call
SelectSector ==
    /\ pc = "idle"
    /\ Len(calls) < MaxCalls
    /\ \E sector_key \in SectorKeys :
          args' = [fn |-> "get_industries_for_sector", sector_key |-> sector_key]
    /\ pc' = "call"
    /\ UNCHANGED <<yf, ret, fpe, cache, calls>>

GetIndustriesForSector ==
    /\ pc = "call"
    /\ args.fn = "get_industries_for_sector"
    /\ LET value == get_industries_for_sector(args.sector_key, cache, yf)
       IN  /\ ret' = Returned(value)
           /\ cache' = store(cache, SectorKeyOf(args.sector_key), value)
           /\ calls' = Append(calls,
                          Call("get_industries_for_sector", args.sector_key,
                               SectorKeyOf(args.sector_key) \notin DOMAIN cache, value))
    /\ pc' = "idle"
    /\ UNCHANGED <<args, yf, fpe>>

\* the upstream API changes its answer for one sector
UpstreamChanges ==
    /\ args.fn = "get_industries_for_sector"
    /\ \E sector_key \in SectorKeys, answer \in SectorAnswers :
          /\ yf[sector_key] # answer
          /\ yf' = [yf EXCEPT ![sector_key] = answer]
    /\ UNCHANGED <<pc, args, ret, fpe, cache, calls>>

NextSession == SelectSector \/ GetIndustriesForSector \/ UpstreamChanges

SpecSession == InitSession /\ [][NextSession]_vars

(***************************************************************************)
(* Claims about get_industries_for_sector.                                 *)
(***************************************************************************)
\* the positions in a history of the calls made with a sector key
CallsOf(history, sector_key) ==
    {i \in 1..Len(history) :
        /\ history[i].fn = "get_industries_for_sector"
        /\ history[i].key = sector_key}

First(S) == CHOOSE i \in S : \A j \in S : i <= j

\* upstream cannot give the industries of a sector: the lookup raises or what
\* it returns is not a table with a "name" column
UpstreamFails(sector_key) ==
    \/ yf[sector_key].kind = "raises"
    \/ yf[sector_key].industries = None
    \/ \E i \in 1..Len(yf[sector_key].industries[1]) :
          "name" \notin DOMAIN yf[sector_key].industries[1][i]

\* C12: in a session, every call of get_industries_for_sector returns a
\* mapping and never raises; the first call with a sector key returns the
\* empty mapping when upstream fails; upstream is queried at most once per
\* sector key; and every later call with that key returns what the first
\* call with it returned, whatever upstream would answer by then.
C12_MemoisedPerSectorKey ==
    [][(pc = "call" /\ args.fn = "get_industries_for_sector" /\ pc' = "idle") =>
        LET k == args.sector_key
            before == CallsOf(calls, k)
        IN  /\ ~ret'.raised
            /\ Len(calls') = Len(calls) + 1
            /\ calls'[Len(calls')].key = k
            /\ calls'[Len(calls')].value = ret'.value
            /\ (before = {} /\ UpstreamFails(k)) => ret'.value = <<>>
            /\ before # {} => ret'.value = calls[First(before)].value
            /\ Cardinality({i \in CallsOf(calls', k) : calls'[i].upstream}) <= 1
      ]_vars

\* a sector key is looked up twice: the first lookup asked upstream and gave
\* the empty mapping, upstream now lists industries for that key, and the
\* second lookup gave the empty mapping again without asking upstream
C12_Witness ==
    /\ pc = "idle"
    /\ Len(calls) = 2
    /\ calls[1].key = "energy" /\ calls[2].key = "energy"
    /\ calls[1].upstream /\ calls[1].value = <<>>
    /\ ~calls[2].upstream /\ calls[2].value = <<>>
    /\ ret = Returned(<<>>)
    /\ ~UpstreamFails("energy")
    /\ yf["energy"].industries[1] # <<>>

====
